---- MODULE Spec2Model ----
(***************************************************************************)
(* Model of the Excalidraw article viewer (ExcalidrawArticle.tsx): the     *)
(* colour adapter toLight, the image locator identifyImages, the render    *)
(* effect with its click targets, and the lightbox modal with its click    *)
(* and keyboard handlers; and of the export buttons (ExportButtons.tsx):   *)
(* the loading poll, the print path and the download path.                 *)
(*                                                                         *)
(* JavaScript values are encoded as follows.  A string is the sequence of  *)
(* its characters, each character a one-character TLA+ string; the empty   *)
(* string is << >>.  undefined and null are the one-element sequences      *)
(* Undefined and Null, whose only element is no character, so that they    *)
(* differ from every string.                                               *)
(***************************************************************************)
EXTENDS Integers, Sequences, FiniteSets, TLC

VARIABLES
    hex,            \* toLight: the argument
    lightened,      \* toLight(hex)
    relightened,    \* toLight(toLight(hex))
    colorPc,        \* "input", "once", "twice"
    elements,       \* identifyImages: the element list
    files,          \* identifyImages: the asset map
    located,        \* what identifyImages did: [threw, images]
    locPc,          \* "input", "done"
    identifiedImages,   \* viewer state: the located descriptors
    selectedImage,      \* viewer state: the descriptor in the modal, or null
    currentImageIndex,  \* viewer state: the navigation index, from 0
    isModalOpen,        \* viewer state
    loading,            \* viewer state: the spinner overlay is shown
    isDark,             \* viewer state: the document has the class "dark"
    renders,            \* the render calls awaiting exportToSvg
    shown,              \* the SVG in the container, or null
    delegated,          \* number of delegated click listeners on the container
    handlerProp,        \* the container has the property __imageClickHandler
    excal,              \* the page has a [data-excal] element with the hooks
    isExcalLoading,     \* export buttons state
    isPrinting,         \* export buttons state
    previousThemeRef,   \* export buttons ref: "null", "dark" or "light"
    storedTheme,        \* localStorage "theme" as the buttons wrote it, or "null"
    printPc,            \* handlePrintPDF: "idle", "rendering", "settling",
                        \* "dialog", "caught"; "browser": a dialog the
                        \* browser opened by itself
    themeBeforePrint,   \* history: the theme just before the print whose
                        \* dialog is awaited began, or "null"
    interval,           \* the 100 ms interval of the loading poll is set
    timeout,            \* the 10 s timeout of the loading poll is pending
    downloaded          \* what the last download did: "none", "generator",
                        \* "container", "article", "alert"

colorVars == <<hex, lightened, relightened, colorPc>>
locVars == <<elements, files, located, locPc>>

modalVars == <<selectedImage, currentImageIndex, isModalOpen>>
renderVars == <<loading, isDark, renders, shown, delegated, handlerProp>>
viewerVars == <<identifiedImages, selectedImage, currentImageIndex, isModalOpen,
                loading, isDark, renders, shown, delegated, handlerProp>>

exportVars == <<excal, isExcalLoading, isPrinting, previousThemeRef, storedTheme,
                printPc, themeBeforePrint, interval, timeout, downloaded>>

vars == <<hex, lightened, relightened, colorPc, elements, files, located, locPc,
          identifiedImages, selectedImage, currentImageIndex, isModalOpen,
          loading, isDark, renders, shown, delegated, handlerProp,
          excal, isExcalLoading, isPrinting, previousThemeRef, storedTheme,
          printPc, themeBeforePrint, interval, timeout, downloaded>>

(***************************************************************************)
(* JavaScript values                                                       *)
(***************************************************************************)
Undefined == <<"undefined">>
Null == <<"null">>

IsString(v) == v # Undefined /\ v # Null

\* A number n
Num(n) == <<"number", n>>

\* Objects are records.  null and undefined, where an object may stand, are
\* the records NullObject and UndefinedObject, which have no other field.
NullObject == [jsNull |-> TRUE]
UndefinedObject == [jsUndefined |-> TRUE]
IsObject(o) == o # NullObject /\ o # UndefinedObject

\* a ?? b in the place of a || b: an empty string is kept.
OrElseNullish(a, b) == IF a # Undefined /\ a # Null THEN a ELSE b

\* a || b on strings
OrElse(a, b) == IF a # Undefined /\ a # Null /\ a # << >> THEN a ELSE b

\* A default that replaces undefined only (a default parameter), not null.
CoalesceUndefinedOnly(a, b) == IF a = Undefined THEN b ELSE a

\* a ?? b
Coalesce(a, b) == IF a = Undefined \/ a = Null THEN b ELSE a

\* JavaScript truthiness of a string, undefined or null: only a non-empty
\* string is truthy.
Truthy(v) == IsString(v) /\ v # << >>

RECURSIVE Repeat(_, _)
Repeat(s, n) == IF n = 0 THEN << >> ELSE s \o Repeat(s, n - 1)

(***************************************************************************)
(* IEEE-754 double arithmetic, as far as isDarkColor uses it.  A           *)
(* non-negative double below 2^24 is held exactly as a natural number of   *)
(* units 2^-56, written in four limbs of 20 bits, least significant first. *)
(* The result of every multiplication and addition is rounded to 53        *)
(* significant bits, ties to even, as the hardware does.                   *)
(***************************************************************************)
LimbBase == 1048576

Pow2(n) == 2 ^ n

RECURSIVE MulCarry(_, _, _, _)
MulCarry(x, k, i, c) ==
    IF i > 4 THEN << >>
    ELSE LET t == x[i] * k + c
         IN  <<t % LimbBase>> \o MulCarry(x, k, i + 1, t \div LimbBase)

RECURSIVE AddCarry(_, _, _, _)
AddCarry(x, y, i, c) ==
    IF i > 4 THEN << >>
    ELSE LET t == x[i] + y[i] + c
         IN  <<t % LimbBase>> \o AddCarry(x, y, i + 1, t \div LimbBase)

BigLess(x, y) ==
    \E i \in 1..4 : x[i] < y[i] /\ \A j \in (i + 1)..4 : x[j] = y[j]

BitLen(x) ==
    IF \A i \in 1..4 : x[i] = 0 THEN 0
    ELSE LET h == CHOOSE i \in 1..4 : x[i] # 0 /\ \A j \in (i + 1)..4 : x[j] = 0
             b == CHOOSE k \in 1..20 : Pow2(k - 1) <= x[h] /\ x[h] < Pow2(k)
         IN  20 * (h - 1) + b

\* Round to 53 significant bits, ties to even.  At most 12 bits are dropped
\* here, so they all lie in the lowest limb.
RoundDouble(x) ==
    LET d == BitLen(x) - 53
    IN  IF d <= 0 THEN x
        ELSE LET p    == Pow2(d)
                 rem  == x[1] % p
                 down == [x EXCEPT ![1] = x[1] - rem]
                 odd  == (x[1] \div p) % 2 = 1
                 up   == rem > p \div 2 \/ (rem = p \div 2 /\ odd)
             IN  IF up THEN AddCarry(down, <<p, 0, 0, 0>>, 1, 0) ELSE down

DoubleMul(c, k) == RoundDouble(MulCarry(c, k, 1, 0))
DoubleAdd(x, y) == RoundDouble(AddCarry(x, y, 1, 0))

\* The doubles nearest to the literals of isDarkColor, in units of 2^-56.
D_0_2126 == <<77176, 999922, 13932, 0>>     \* 0x1.b367a0f9096bcp-3
D_0_7152 == <<615720, 364065, 46871, 0>>    \* 0x1.6e2eb1c432ca5p-1
D_0_0722 == <<355677, 733164, 4731, 0>>     \* 0x1.27bb2fec56d5dp-4
D_90 == <<0, 0, 655360, 5>>                 \* 90 * 2^56

(***************************************************************************)
(* Colour adapter: isDarkColor, toLight                                    *)
(***************************************************************************)
HexDigits == <<"0", "1", "2", "3", "4", "5", "6", "7", "8", "9",
               "a", "b", "c", "d", "e", "f">>
UpperHexDigits == <<"0", "1", "2", "3", "4", "5", "6", "7", "8", "9",
                    "A", "B", "C", "D", "E", "F">>

\* [0-9a-f] under the i flag
IsHexDigit(c) == \E i \in 1..16 : HexDigits[i] = c \/ UpperHexDigits[i] = c

HexDigitValue(c) ==
    (CHOOSE i \in 1..16 : HexDigits[i] = c \/ UpperHexDigits[i] = c) - 1

\* The pattern without its end anchor: /^#?([0-9a-f]{6})/i
RegexMatchUnanchored(s) ==
    IF Len(s) >= 6 /\ \A i \in 1..6 : IsHexDigit(s[i]) THEN SubSeq(s, 1, 6)
    ELSE IF Len(s) >= 7 /\ s[1] = "#" /\ \A i \in 2..7 : IsHexDigit(s[i])
         THEN SubSeq(s, 2, 7)
         ELSE Null

\* /^#?([0-9a-f]{6})$/i : the captured group, or Null when there is no match
RegexMatch(s) ==
    IF Len(s) = 6 /\ \A i \in 1..6 : IsHexDigit(s[i]) THEN s
    ELSE IF Len(s) = 7 /\ s[1] = "#" /\ \A i \in 2..7 : IsHexDigit(s[i])
         THEN SubSeq(s, 2, 7)
         ELSE Null

\* parseInt(digits, 16), one channel at a time: (int >> 16) & 255 is the
\* value of digits 1-2, (int >> 8) & 255 of digits 3-4, int & 255 of 5-6.
RECURSIVE ParseInt16(_)
ParseInt16(s) ==
    IF s = << >> THEN 0
    ELSE 16 * ParseInt16(SubSeq(s, 1, Len(s) - 1)) + HexDigitValue(s[Len(s)])

Channel(digits, shift) ==
    (ParseInt16(digits) \div Pow2(shift)) % 256

Luma(r, g, b) ==
    DoubleAdd(DoubleAdd(DoubleMul(D_0_2126, r), DoubleMul(D_0_7152, g)),
              DoubleMul(D_0_0722, b))

\* luma < 128
DarkThresholdHalf(l) == BigLess(l, <<0, 0, 0, 8>>)

\* luma < 90
DarkThreshold(l) == BigLess(l, D_90)

isDarkColor(s) ==
    LET match == RegexMatch(s)
    IN  IF match = Null THEN FALSE
        ELSE LET r == Channel(match, 16)
                 g == Channel(match, 8)
                 b == Channel(match, 0)
             IN  DarkThreshold(Luma(r, g, b))

LightGray == <<"#", "e", "5", "e", "7", "e", "b">>
Transparent == <<"t", "r", "a", "n", "s", "p", "a", "r", "e", "n", "t">>

\* toLight that normalises a light colour by prefixing '#'.
toLightPrefixing(h) ==
    IF ~Truthy(h) THEN h
    ELSE IF h = Transparent THEN h
    ELSE IF isDarkColor(h) THEN LightGray ELSE <<"#">> \o h

toLight(h) ==
    IF ~Truthy(h) THEN h
    ELSE IF h = Transparent THEN h
    ELSE IF isDarkColor(h) THEN LightGray ELSE h

(***************************************************************************)
(* Image locator: identifyImages                                           *)
(*                                                                         *)
(* An element is a record of the fields identifyImages reads (type,        *)
(* fileId, id, x, y, width, height; a missing field holds Undefined), or   *)
(* NullObject / UndefinedObject for a null or undefined entry of the list. *)
(* The asset map is [entries |-> a function from fileIds to asset          *)
(* records], or NullObject, or UndefinedObject (argument not passed).      *)
(***************************************************************************)
ImageType == <<"i", "m", "a", "g", "e">>
ImagePng == <<"i", "m", "a", "g", "e", "/", "p", "n", "g">>
ImageJpeg == <<"i", "m", "a", "g", "e", "/", "j", "p", "e", "g">>
DataScheme == <<"d", "a", "t", "a", ":">>
Base64Marker == <<";", "b", "a", "s", "e", "6", "4", ",">>

\* files[fileId]
Lookup(map, fileId) ==
    IF fileId \in DOMAIN map.entries THEN map.entries[fileId] ELSE UndefinedObject

\* element.type === 'image' without the test of element.fileId
IsImageElementAnyFile(element) == element.type = ImageType

\* element.type === 'image' && element.fileId
IsImageElement(element) == element.type = ImageType /\ Truthy(element.fileId)

\* The raw data is preferred to the ready data URL.
DataUrlOfRawFirst(fileData) ==
    IF Truthy(fileData.data)
    THEN DataScheme \o OrElse(fileData.mimeType, ImagePng) \o Base64Marker
         \o fileData.data
    ELSE IF Truthy(fileData.dataURL) THEN fileData.dataURL
    ELSE Undefined

\* Lines 72-78: the data URL of an asset record
DataUrlOf(fileData) ==
    IF Truthy(fileData.dataURL) THEN fileData.dataURL
    ELSE IF Truthy(fileData.data)
         THEN DataScheme \o OrElse(fileData.mimeType, ImagePng) \o Base64Marker
              \o fileData.data
         ELSE Undefined

\* The display name falls back to the fileId even without an asset record.
ImageInfoOfNamed(element, map) ==
    LET fileId   == element.fileId
        fileData == Lookup(map, fileId)
        known    == IsObject(fileData)
    IN  [id       |-> element.id,
         fileId   |-> fileId,
         x        |-> Coalesce(element.x, Num(0)),
         y        |-> Coalesce(element.y, Num(0)),
         width    |-> Coalesce(element.width, Num(0)),
         height   |-> Coalesce(element.height, Num(0)),
         fileName |-> IF known
                      THEN OrElse(fileData.name, OrElse(fileData.id, fileId))
                      ELSE fileId,
         mimeType |-> IF known THEN OrElse(fileData.mimeType, ImagePng)
                      ELSE Undefined,
         dataUrl  |-> IF known THEN DataUrlOf(fileData) ELSE Undefined]

\* Lines 59-94: the descriptor pushed for an image element
ImageInfoOf(element, map) ==
    LET fileId   == element.fileId
        fileData == Lookup(map, fileId)
        known    == IsObject(fileData)
    IN  [id       |-> element.id,
         fileId   |-> fileId,
         x        |-> Coalesce(element.x, Num(0)),
         y        |-> Coalesce(element.y, Num(0)),
         width    |-> Coalesce(element.width, Num(0)),
         height   |-> Coalesce(element.height, Num(0)),
         fileName |-> IF known
                      THEN OrElse(fileData.name, OrElse(fileData.id, fileId))
                      ELSE Undefined,
         mimeType |-> IF known THEN OrElse(fileData.mimeType, ImagePng)
                      ELSE Undefined,
         dataUrl  |-> IF known THEN DataUrlOf(fileData) ELSE Undefined]

\* The loop of lines 56-96 from element i on, images being the descriptors
\* pushed so far.  Reading a property of a null or undefined element, or
\* indexing a null asset map, throws a TypeError, which nothing catches.
RECURSIVE IdentifyFrom(_, _, _, _)
IdentifyFrom(els, map, i, images) ==
    IF i > Len(els) THEN [threw |-> FALSE, images |-> images]
    ELSE IF ~IsObject(els[i]) THEN [threw |-> TRUE, images |-> << >>]
    ELSE IF ~IsImageElement(els[i]) THEN IdentifyFrom(els, map, i + 1, images)
    ELSE IF map = NullObject THEN [threw |-> TRUE, images |-> << >>]
    ELSE IdentifyFrom(els, map, i + 1, Append(images, ImageInfoOf(els[i], map)))

NoFiles == [entries |-> << >>]

\* files = {} when the argument is undefined
identifyImages(els, map) ==
    IdentifyFrom(els, IF map = UndefinedObject THEN NoFiles ELSE map, 1, << >>)

(***************************************************************************)
(* The exported SVG and its annotation (render, lines 301-641)             *)
(*                                                                         *)
(* The SVG that exportToSvg returns is a sequence of DOM elements in       *)
(* document order.  An element is [tag, parent, href, xlink, id]: parent   *)
(* is the position of its parent element, 0 for a child of the <svg>;      *)
(* href is the value of its href or xlink:href attribute ("" when it has   *)
(* neither) and xlink tells which of the two it is; id is its id           *)
(* attribute.  Annotation adds to each element: clickable                  *)
(* (data-image-clickable), fileId (data-file-id, Null when absent) and     *)
(* info, the position in identifiedImages of the descriptor its click      *)
(* handler was created with (0 when it has no click handler).              *)
(***************************************************************************)
Min(a, b) == IF a < b THEN a ELSE b

\* s.substring(0, n)
Substring(s, n) == SubSeq(s, 1, Min(n, Len(s)))

\* s.includes(sub)
Includes(s, sub) ==
    \E i \in 0..(Len(s) - Len(sub)) : SubSeq(s, i + 1, i + Len(sub)) = sub

\* s.indexOf(sub), counted from 1; 0 when sub does not occur
IndexOf(s, sub) ==
    IF Includes(s, sub)
    THEN 1 + CHOOSE i \in 0..(Len(s) - Len(sub)) :
                /\ SubSeq(s, i + 1, i + Len(sub)) = sub
                /\ \A j \in 0..(i - 1) : SubSeq(s, j + 1, j + Len(sub)) # sub
    ELSE 0

\* s.replace('#', ''): the first '#' is removed
RemoveFirstHash(s) ==
    LET i == IndexOf(s, <<"#">>)
    IN  IF i = 0 THEN s ELSE SubSeq(s, 1, i - 1) \o SubSeq(s, i + 1, Len(s))

ImageDash == <<"i", "m", "a", "g", "e", "-">>

\* symbolId.match(/image-(.+)/): the captured group, Null without a match
SymbolFileId(symbolId) ==
    LET i == IndexOf(symbolId, ImageDash)
    IN  IF i = 0 \/ i + 6 > Len(symbolId) THEN Null
        ELSE SubSeq(symbolId, i + 6, Len(symbolId))

\* The least element of a non-empty set of numbers
Least(S) == CHOOSE x \in S : \A y \in S : x <= y

\* Positions of the elements of the SVG with a property, in document order
RECURSIVE Ascending(_)
Ascending(S) ==
    IF S = {} THEN << >> ELSE <<Least(S)>> \o Ascending(S \ {Least(S)})

RECURSIVE IsDescendant(_, _, _)
IsDescendant(svg, d, a) ==
    /\ svg[d].parent # 0
    /\ (svg[d].parent = a \/ IsDescendant(svg, svg[d].parent, a))

\* a.querySelector(tag): the first descendant of element a with the tag, 0
\* when there is none
FirstDescendant(svg, a, tag) ==
    LET S == {d \in 1..Len(svg) : svg[d].tag = tag /\ IsDescendant(svg, d, a)}
    IN  IF S = {} THEN 0 ELSE Least(S)

\* svgEl.querySelectorAll(tag)
AllWithTag(svg, tag) == Ascending({d \in 1..Len(svg) : svg[d].tag = tag})

DataImage == <<"d", "a", "t", "a", ":", "i", "m", "a", "g", "e">>

\* svgEl.querySelectorAll('image, [xlink\\:href], [href*="data:image"]')
ImageElements(svg) ==
    Ascending({d \in 1..Len(svg) :
                 \/ svg[d].tag = "image"
                 \/ svg[d].xlink
                 \/ (~svg[d].xlink /\ Includes(svg[d].href, DataImage))})

\* A Map as the sequence of its entries <<key, value>> in insertion order:
\* map.has(key), map.set(key, value)
MapHas(m, k) == \E i \in 1..Len(m) : m[i][1] = k

MapSet(m, k, v) ==
    IF MapHas(m, k)
    THEN [i \in 1..Len(m) |-> IF m[i][1] = k THEN <<k, v>> ELSE m[i]]
    ELSE Append(m, <<k, v>>)

\* Lines 320-336.  The maps hold the position of the descriptor in images.
RECURSIVE FileIdMapFrom(_, _, _)
FileIdMapFrom(images, i, m) ==
    IF i > Len(images) THEN m
    ELSE FileIdMapFrom(images, i + 1,
                       MapSet(MapSet(m, images[i].fileId, i), images[i].id, i))

imageMap(images) == FileIdMapFrom(images, 1, << >>)

RECURSIVE DataUrlMapFrom(_, _, _)
DataUrlMapFrom(images, i, m) ==
    IF i > Len(images) THEN m
    ELSE IF ~Truthy(images[i].dataUrl) THEN DataUrlMapFrom(images, i + 1, m)
    ELSE LET short == MapSet(m, Substring(images[i].dataUrl, 100), i)
             start == Substring(images[i].dataUrl, 50)
         IN  DataUrlMapFrom(images, i + 1,
                            IF MapHas(short, start) THEN short
                            ELSE MapSet(short, start, i))

dataUrlMap(images) == DataUrlMapFrom(images, 1, << >>)

\* The value of the first entry of a map whose key passes the test; 0 when
\* none does (a for-of loop that breaks at the first hit).
FirstHit(m, Test(_, _)) ==
    LET S == {i \in 1..Len(m) : Test(m[i][1], m[i][2])}
    IN  IF S = {} THEN 0 ELSE m[Least(S)][2]

\* Lines 455-456: the symbol's image matches by the first 30 characters.
HitBySymbolHref(images, href) ==
    FirstHit(dataUrlMap(images),
             LAMBDA short, i : Includes(href, Substring(short, 30)))

\* Lines 499-502 and 553-556: a data URL matches by its first characters.
HitByDataUrl(images, href) ==
    FirstHit(dataUrlMap(images),
             LAMBDA short, i :
                LET compareLength == Min(50, Min(Len(short), Len(href)))
                IN  \/ Substring(href, compareLength) = Substring(short, compareLength)
                    \/ Includes(href, Substring(short, 30)))

\* Lines 515-516 and 570-571: the href contains a fileId or an element id.
HitByFileId(images, href) ==
    FirstHit(imageMap(images),
             LAMBDA key, i : Includes(href, key) \/ Includes(href, images[i].fileId))

\* identifiedImages.find(img => img.fileId === fileId): its position, 0
\* when there is none
FindByFileId(images, fileId) ==
    LET S == {i \in 1..Len(images) : images[i].fileId = fileId}
    IN  IF S = {} THEN 0 ELSE Least(S)

\* identifiedImages[idx] || identifiedImages[0], idx counted from 0
AtOrFirst(images, idx) == IF idx + 1 <= Len(images) THEN idx + 1 ELSE 1

\* The state of the annotation: the SVG so far and clickableCount.
\* makeClickable (lines 342-386) leaves an element that is already
\* clickable as it is.
makeClickable(svg, images, el, i) ==
    IF svg[el].clickable THEN svg
    ELSE [svg EXCEPT ![el].clickable = TRUE,
                     ![el].fileId = images[i].fileId,
                     ![el].info = i]

Counted(st, svg, n) == [svg |-> svg, count |-> st.count + n, groupIndex |-> st.groupIndex]

\* svgEl.querySelector(`symbol#${symbolId}`): 0 when there is none
SymbolWithId(svg, symbolId) ==
    LET S == {d \in 1..Len(svg) : svg[d].tag = "symbol" /\ svg[d].id = symbolId}
    IN  IF S = {} THEN 0 ELSE Least(S)

\* Lines 418-469, for one <use> element
UseStep(st, images, u) ==
    LET svg      == st.svg
        useHref  == svg[u].href
        symbolId == RemoveFirstHash(useHref)
        symbolFileId == SymbolFileId(symbolId)
        byFileId == IF symbolFileId = Null THEN 0
                    ELSE FindByFileId(images, symbolFileId)
        symbol   == SymbolWithId(svg, symbolId)
        symbolImage == IF symbol = 0 THEN 0 ELSE FirstDescendant(svg, symbol, "image")
        byHref   == IF symbolImage = 0 THEN 0
                    ELSE HitBySymbolHref(images, svg[symbolImage].href)
    IN  IF useHref = << >> THEN st
        ELSE IF byFileId # 0
             THEN Counted(st, makeClickable(svg, images, u, byFileId), 1)
        ELSE IF byHref # 0
             THEN Counted(st, makeClickable(svg, images, u, byHref), 1)
        ELSE st

RECURSIVE UseLoop(_, _, _, _)
UseLoop(st, images, uses, k) ==
    IF k > Len(uses) THEN st
    ELSE UseLoop(UseStep(st, images, uses[k]), images, uses, k + 1)

\* Only a match by data URL or by fileId makes the element clickable.
ImageStepMatchedOnly(st, images, el, imgIdx) ==
    LET svg    == st.svg
        href   == svg[el].href
        byUrl  == HitByDataUrl(images, href)
        byFile == HitByFileId(images, href)
    IN  IF href = << >> \/ (svg[el].parent # 0 /\ svg[svg[el].parent].tag = "symbol")
        THEN st
        ELSE IF byUrl # 0 THEN Counted(st, makeClickable(svg, images, el, byUrl), 1)
        ELSE IF byFile # 0 THEN Counted(st, makeClickable(svg, images, el, byFile), 1)
        ELSE st

\* Lines 471-537, for the element at position imgIdx (from 0) of imageElements
ImageStep(st, images, el, imgIdx) ==
    LET svg    == st.svg
        href   == svg[el].href
        byUrl  == HitByDataUrl(images, href)
        byFile == HitByFileId(images, href)
        hit    == IF byUrl # 0 THEN byUrl
                  ELSE IF byFile # 0 THEN byFile
                  ELSE AtOrFirst(images, imgIdx)
    IN  IF svg[el].parent # 0 /\ svg[svg[el].parent].tag = "symbol" THEN st
        ELSE IF href = << >>
             THEN IF imgIdx + 1 <= Len(images)
                  THEN Counted(st, makeClickable(svg, images, el, imgIdx + 1), 1)
                  ELSE st
        ELSE Counted(st, makeClickable(svg, images, el, hit), 1)

RECURSIVE ImageLoop(_, _, _, _)
ImageLoop(st, images, els, k) ==
    IF k > Len(els) THEN st
    ELSE ImageLoop(ImageStep(st, images, els[k], k - 1), images, els, k + 1)

\* Lines 543-597, for one <g> element
GroupStep(st, images, g) ==
    LET svg    == st.svg
        img    == FirstDescendant(svg, g, "image")
        href   == svg[img].href
        byUrl  == IF href = << >> THEN 0 ELSE HitByDataUrl(images, href)
        byFile == IF href = << >> THEN 0 ELSE HitByFileId(images, href)
        hit    == IF byUrl # 0 THEN byUrl ELSE byFile
        both(i) == makeClickable(makeClickable(svg, images, g, i), images, img, i)
    IN  IF img = 0 \/ svg[g].clickable THEN st
        ELSE IF hit # 0 THEN Counted(st, both(hit), 2)
        ELSE [svg |-> both(AtOrFirst(images, st.groupIndex)),
              count |-> st.count + 2,
              groupIndex |-> st.groupIndex + 1]

RECURSIVE GroupLoop(_, _, _, _)
GroupLoop(st, images, groups, k) ==
    IF k > Len(groups) THEN st
    ELSE GroupLoop(GroupStep(st, images, groups[k]), images, groups, k + 1)

\* svgEl.querySelector(`[id="${id}"]`): 0 when there is none
ElementWithId(svg, id) ==
    LET S == {d \in 1..Len(svg) : svg[d].id = id}
    IN  IF S = {} THEN 0 ELSE Least(S)

\* Lines 600-606
RECURSIVE ByIdLoop(_, _, _)
ByIdLoop(st, images, i) ==
    IF i > Len(images) THEN st
    ELSE LET el == ElementWithId(st.svg, images[i].id)
         IN  ByIdLoop(IF el # 0 /\ ~st.svg[el].clickable
                      THEN Counted(st, makeClickable(st.svg, images, el, i), 1)
                      ELSE st,
                      images, i + 1)

\* Lines 609-620: every <image> gets the descriptor at its own position
RECURSIVE ByPositionLoop(_, _, _, _)
ByPositionLoop(st, images, els, k) ==
    IF k > Len(els) THEN st
    ELSE ByPositionLoop(IF ~st.svg[els[k]].clickable /\ k <= Len(images)
                        THEN Counted(st, makeClickable(st.svg, images, els[k], k), 1)
                        ELSE st,
                        images, els, k + 1)

\* Lines 624-635: every <image> gets the first descriptor
RECURSIVE LastResortLoop(_, _, _, _)
LastResortLoop(st, images, els, k) ==
    IF k > Len(els) THEN st
    ELSE LastResortLoop(IF ~st.svg[els[k]].clickable
                        THEN Counted(st, makeClickable(st.svg, images, els[k], 1), 1)
                        ELSE st,
                        images, els, k + 1)

\* An element as exportToSvg returns it: not clickable, no handler
Plain(el) ==
    [tag |-> el.tag, parent |-> el.parent, href |-> el.href, xlink |-> el.xlink,
     id |-> el.id, clickable |-> FALSE, fileId |-> Null, info |-> 0]

\* Lines 314-641: the SVG with its click targets
Annotate(exported, images) ==
    LET svg0 == [d \in 1..Len(exported) |-> Plain(exported[d])]
        s0 == [svg |-> svg0, count |-> 0, groupIndex |-> 0]
        s1 == UseLoop(s0, images, AllWithTag(svg0, "use"), 1)
        s2 == ImageLoop(s1, images, ImageElements(svg0), 1)
        s3 == GroupLoop(s2, images, AllWithTag(svg0, "g"), 1)
        s4 == ByIdLoop(s3, images, 1)
        s5 == IF s4.count = 0
              THEN ByPositionLoop(s4, images, AllWithTag(svg0, "image"), 1)
              ELSE s4
        s6 == IF s5.count = 0
              THEN LastResortLoop(s5, images, AllWithTag(svg0, "image"), 1)
              ELSE s5
    IN  IF Len(images) > 0 THEN s6.svg ELSE svg0

(***************************************************************************)
(* The lightbox modal and the click handlers                               *)
(*                                                                         *)
(* The handlers work on the modal state m = [selectedImage,                *)
(* currentImageIndex, isModalOpen]; images is identifiedImages.            *)
(***************************************************************************)
\* Lines 759-766, with the index wrapping dropped
navigateToNextImageUnwrapped(images, m) ==
    IF Len(images) = 0 THEN m
    ELSE LET nextIndex == m.currentImageIndex + 1
         IN  [m EXCEPT !.currentImageIndex = nextIndex,
                       !.selectedImage = IF nextIndex + 1 <= Len(images)
                                         THEN images[nextIndex + 1]
                                         ELSE UndefinedObject]

\* Lines 759-766
navigateToNextImage(images, m) ==
    IF Len(images) = 0 THEN m
    ELSE LET nextIndex == (m.currentImageIndex + 1) % Len(images)
         IN  [m EXCEPT !.currentImageIndex = nextIndex,
                       !.selectedImage = images[nextIndex + 1]]

\* Lines 768-775
navigateToPrevImage(images, m) ==
    IF Len(images) = 0 THEN m
    ELSE LET prevIndex == (m.currentImageIndex - 1 + Len(images)) % Len(images)
         IN  [m EXCEPT !.currentImageIndex = prevIndex,
                       !.selectedImage = images[prevIndex + 1]]

\* Closing that only clears the selection
closeModalKeepingFlag(m) == [m EXCEPT !.selectedImage = NullObject]

\* Lines 783-786, 819-820, 830-831: setIsModalOpen(false), setSelectedImage(null)
closeModal(m) == [m EXCEPT !.isModalOpen = FALSE, !.selectedImage = NullObject]

\* Lines 781-794: handleKeyboard
handleKeyboard(images, key, m) ==
    IF key = "Escape" THEN closeModal(m)
    ELSE IF key = "ArrowRight" THEN navigateToNextImage(images, m)
    ELSE IF key = "ArrowLeft" THEN navigateToPrevImage(images, m)
    ELSE m

\* Lines 815-913: the elements of the modal that take clicks, and for each
\* the path its click event bubbles along.  The navigation buttons exist
\* only with more than one image.
ModalTargets(images) ==
    {"backdrop", "content", "close"}
        \cup (IF Len(images) > 1 THEN {"prev", "next"} ELSE {})

BubblePath(target) ==
    IF target = "backdrop" THEN <<"backdrop">>
    ELSE IF target = "content" THEN <<"content", "backdrop">>
    ELSE <<target, "content", "backdrop">>

\* The content's onClick without e.stopPropagation()
ModalOnClickPropagating(images, node, m) ==
    IF node = "backdrop" THEN [m |-> closeModal(m), stopped |-> FALSE]
    ELSE IF node = "content" THEN [m |-> m, stopped |-> FALSE]
    ELSE IF node = "close" THEN [m |-> closeModal(m), stopped |-> FALSE]
    ELSE IF node = "prev" THEN [m |-> navigateToPrevImage(images, m), stopped |-> TRUE]
    ELSE [m |-> navigateToNextImage(images, m), stopped |-> TRUE]

\* The onClick of one element of the modal: the new modal state and
\* whether it stopped the propagation (lines 818-821, 825, 829-832,
\* 864-867, 891-894).
ModalOnClick(images, node, m) ==
    IF node = "backdrop" THEN [m |-> closeModal(m), stopped |-> FALSE]
    ELSE IF node = "content" THEN [m |-> m, stopped |-> TRUE]
    ELSE IF node = "close" THEN [m |-> closeModal(m), stopped |-> FALSE]
    ELSE IF node = "prev" THEN [m |-> navigateToPrevImage(images, m), stopped |-> TRUE]
    ELSE [m |-> navigateToNextImage(images, m), stopped |-> TRUE]

\* A click bubbling along a path from position k on
RECURSIVE Bubble(_, _, _, _)
Bubble(images, path, k, m) ==
    IF k > Len(path) THEN m
    ELSE LET r == ModalOnClick(images, path[k], m)
         IN  IF r.stopped THEN r.m ELSE Bubble(images, path, k + 1, r.m)

\* target.closest('image'): the nearest element from d upwards; 0 if none
RECURSIVE ClosestImage(_, _)
ClosestImage(svg, d) ==
    IF d = 0 THEN 0
    ELSE IF svg[d].tag = "image" THEN d
    ELSE ClosestImage(svg, svg[d].parent)

\* target.closest('[data-image-clickable]')
RECURSIVE ClosestClickable(_, _)
ClosestClickable(svg, d) ==
    IF d = 0 THEN 0
    ELSE IF svg[d].clickable THEN d
    ELSE ClosestClickable(svg, svg[d].parent)

\* Lines 663-666: the first descriptor whose data URL start or fileId the
\* href contains; 0 if none
FindByHref(images, href) ==
    LET S == {i \in 1..Len(images) :
                \/ (Truthy(images[i].dataUrl)
                    /\ Includes(href, Substring(images[i].dataUrl, 30)))
                \/ Includes(href, images[i].fileId)}
    IN  IF S = {} THEN 0 ELSE Least(S)

\* The descriptor is selected and the flag is left as it was.
openModalWithoutFlag(images, i, m) == [m EXCEPT !.selectedImage = images[i]]

\* The modal opened on the descriptor at position i, the index left alone
\* (lines 683-684, 702-703)
openModal(images, i, m) ==
    [m EXCEPT !.selectedImage = images[i], !.isModalOpen = TRUE]

\* Lines 649-708: containerClickHandler for a click on element d
containerClickHandler(svg, images, d, m) ==
    LET imageEl  == ClosestImage(svg, d)
        attr     == svg[imageEl].fileId
        byHref   == IF svg[imageEl].href = << >> THEN 0
                    ELSE FindByHref(images, svg[imageEl].href)
        fileId   == IF Truthy(attr) THEN attr
                    ELSE IF byHref # 0 THEN images[byHref].fileId
                    ELSE attr
        ofImage  == IF Truthy(fileId) THEN FindByFileId(images, fileId)
                    ELSE IF Len(images) > 0 THEN 1 ELSE 0
        clickableEl == ClosestClickable(svg, d)
        ofClickable == IF clickableEl # 0 /\ Truthy(svg[clickableEl].fileId)
                       THEN FindByFileId(images, svg[clickableEl].fileId)
                       ELSE 0
    IN  IF imageEl # 0
        THEN IF ofImage # 0
             THEN [m |-> openModal(images, ofImage, m), stopped |-> TRUE]
             ELSE [m |-> m, stopped |-> FALSE]
        ELSE IF ofClickable # 0
             THEN [m |-> openModal(images, ofClickable, m), stopped |-> TRUE]
             ELSE [m |-> m, stopped |-> FALSE]

\* Lines 355-370: the click handler that makeClickable gave an element,
\* created with the descriptor at position info
clickHandler(images, info, m) ==
    LET imageIndex == FindByFileId(images, images[info].fileId) - 1
    IN  [selectedImage |-> images[info],
         currentImageIndex |-> IF imageIndex >= 0 THEN imageIndex ELSE 0,
         isModalOpen |-> TRUE]

\* The elements from the root of the SVG down to d
RECURSIVE PathTo(_, _)
PathTo(svg, d) == IF d = 0 THEN << >> ELSE PathTo(svg, svg[d].parent) \o <<d>>

\* A click on element d of the SVG in the container.  The listeners are all
\* capturing: those of the container run first, then those of the
\* elements from the root down to d; each stops the propagation when it
\* opens the modal.
Dispatch(svg, images, d, listeners, m) ==
    LET r == containerClickHandler(svg, images, d, m)
        path == PathTo(svg, d)
        S == {k \in 1..Len(path) : svg[path[k]].info # 0}
    IN  IF listeners > 0 /\ r.stopped THEN r.m
        ELSE IF S = {} THEN m
        ELSE clickHandler(images, svg[path[Least(S)]].info, m)

\* The elements a pointer can hit: drawn shapes outside of symbols
RECURSIVE InSymbol(_, _)
InSymbol(svg, d) ==
    d # 0 /\ (svg[d].tag = "symbol" \/ InSymbol(svg, svg[d].parent))

ClickTargets(svg) ==
    {d \in 1..Len(svg) : svg[d].tag \in {"image", "use", "rect"} /\ ~InSymbol(svg, d)}

(***************************************************************************)
(* Inputs of the image locator                                             *)
(***************************************************************************)
MaxElements == 3

F1 == <<"f", "1">>
F2 == <<"f", "2">>
F3 == <<"f", "3">>
TextType == <<"t", "e", "x", "t">>
ReadyUrl == DataScheme \o ImagePng \o Base64Marker \o <<"i", "V", "B", "O">>
RawData == <<"Q", "U", "J", "D">>
PicName == <<"p", "i", "c">>
AssetId == <<"a", "s", "s", "e", "t">>

GeometrySamples ==
    << [x |-> Num(10), y |-> Num(20), width |-> Num(300), height |-> Num(200)],
       [x |-> Undefined, y |-> Null, width |-> Num(0), height |-> Undefined],
       [x |-> Num(0 - 5), y |-> Undefined, width |-> Null, height |-> Num(7)],
       [x |-> Undefined, y |-> Undefined, width |-> Undefined, height |-> Undefined] >>

\* The type and fileId of an element
ElementShapes ==
    << <<ImageType, F1>>, <<ImageType, F2>>, <<TextType, Undefined>>,
       <<ImageType, << >> >>, <<ImageType, Undefined>>, <<TextType, F1>>,
       <<Undefined, F2>>, <<ImageType, Null>>, <<ImageType, F3>> >>

\* Elements have unique ids: the element at position pos has id "e<pos>".
ElementId(pos) == <<"e", HexDigits[pos + 1]>>

Element(shape, pos, geo) ==
    [type |-> ElementShapes[shape][1], fileId |-> ElementShapes[shape][2],
     id |-> ElementId(pos),
     x |-> GeometrySamples[geo].x, y |-> GeometrySamples[geo].y,
     width |-> GeometrySamples[geo].width, height |-> GeometrySamples[geo].height]

AssetRecords ==
    [dataURL : {Undefined, << >>, ReadyUrl},
     data : {Undefined, << >>, RawData},
     mimeType : {Undefined, << >>, ImageJpeg},
     name : {Undefined, << >>, PicName},
     id : {Undefined, AssetId}]

ReadyAsset ==
    [dataURL |-> ReadyUrl, data |-> Undefined, mimeType |-> ImagePng,
     name |-> PicName, id |-> F1]
RawJpegAsset ==
    [dataURL |-> Undefined, data |-> RawData, mimeType |-> ImageJpeg,
     name |-> Undefined, id |-> AssetId]
RawAsset ==
    [dataURL |-> Undefined, data |-> RawData, mimeType |-> Undefined,
     name |-> Undefined, id |-> Undefined]

AssetMapSamples ==
    { NoFiles,
      [entries |-> (F1 :> ReadyAsset)],
      [entries |-> (F1 :> RawJpegAsset) @@ (F2 :> ReadyAsset)],
      [entries |-> (F2 :> RawAsset)],
      UndefinedObject }

\* Lists of up to MaxElements elements of every shape, with the sample maps.
ListInputs ==
    { << [p \in 1..n |-> Element(shape[p], p, ((p + shape[p]) % 4) + 1)], map >> :
        n \in 0..MaxElements,
        shape \in [1..MaxElements -> 1..Len(ElementShapes)],
        map \in AssetMapSamples }

\* One image element with every asset record, and with a null entry.
RecordInputs ==
    { << <<Element(1, 1, geo)>>, [entries |-> (F1 :> rec)] >> :
        geo \in 1..Len(GeometrySamples), rec \in AssetRecords \cup {NullObject} }

\* Lists with null and undefined entries, and a null asset map.
MalformedInputs ==
    UNION { { << els, map >> :
                els \in [1..n -> {Element(1, 1, 1), Element(3, 2, 2),
                                  NullObject, UndefinedObject}],
                map \in {[entries |-> (F1 :> ReadyAsset)], NullObject, UndefinedObject} } :
            n \in 0..2 }

LocatorInputs == ListInputs \cup RecordInputs \cup MalformedInputs

(***************************************************************************)
(* Inputs of the viewer: drawings and the SVG that exportToSvg returns     *)
(***************************************************************************)
MaxRenders == 2
MaxListeners == 2

\* The start of the base64 text of every PNG file
PngHeader == <<"i", "V", "B", "O", "R", "w", "0", "K", "G", "g", "o", "A",
               "A", "A", "A", "N", "S", "U", "h", "E", "U", "g", "A", "A">>

\* Asset records of PNG files whose data URLs differ only after their
\* first 50 characters
PngAsset(tail) ==
    [dataURL |-> DataScheme \o ImagePng \o Base64Marker \o PngHeader
                 \o Repeat(<<"A">>, 5) \o tail,
     data |-> Undefined, mimeType |-> ImagePng, name |-> PicName, id |-> Undefined]

\* articleData: the elements and the files of a drawing
ArticleSamples ==
    { << <<Element(3, 1, 1)>>, NoFiles >>,
      << <<Element(1, 1, 1)>>, [entries |-> (F1 :> ReadyAsset)] >>,
      << <<Element(1, 1, 1), Element(3, 2, 2), Element(2, 3, 1)>>,
         [entries |-> (F1 :> PngAsset(<<"1">>)) @@ (F2 :> PngAsset(<<"2">>))] >>,
      << <<Element(1, 1, 1), Element(2, 2, 1), Element(9, 3, 1)>>,
         [entries |-> (F1 :> ReadyAsset) @@ (F2 :> RawJpegAsset)] >>,
      << <<Element(1, 1, 1), Element(1, 2, 2)>>, [entries |-> (F1 :> ReadyAsset)] >> }

SvgNode(tag, parent, href, xlink, id) ==
    [tag |-> tag, parent |-> parent, href |-> href, xlink |-> xlink, id |-> id]

\* A shape that is no image (the drawing's other elements)
Shape == SvgNode("rect", 0, << >>, FALSE, << >>)

\* The href of the node of an image: its data URL, none without one
HrefOf(img) == IF Truthy(img.dataUrl) THEN img.dataUrl ELSE << >>

\* <symbol id="image-fileId"><image href/></symbol> for every image, then
\* <g><use href="#image-fileId"/></g> for every image
SymbolStyle(imgs) ==
    LET n == Len(imgs)
    IN  [d \in 1..(1 + 4 * n) |->
            IF d = 1 THEN Shape
            ELSE IF d <= 1 + 2 * n
            THEN IF d % 2 = 0
                 THEN SvgNode("symbol", 0, << >>, FALSE, ImageDash \o imgs[d \div 2].fileId)
                 ELSE SvgNode("image", d - 1, HrefOf(imgs[d \div 2]), FALSE, << >>)
            ELSE IF (d - 1) % 2 = 1
                 THEN SvgNode("g", 0, << >>, FALSE, << >>)
                 ELSE SvgNode("use", d - 1,
                              <<"#">> \o ImageDash \o imgs[(d - 2 * n - 1) \div 2].fileId,
                              FALSE, << >>)]

\* <g><image href/></g> for every image
InlineStyle(imgs) ==
    [d \in 1..(1 + 2 * Len(imgs)) |->
        IF d = 1 THEN Shape
        ELSE IF d % 2 = 0 THEN SvgNode("g", 0, << >>, FALSE, << >>)
        ELSE SvgNode("image", d - 1, HrefOf(imgs[d \div 2]), FALSE, << >>)]

\* <image xlink:href/> for every image
BareStyle(imgs) ==
    [d \in 1..(1 + Len(imgs)) |->
        IF d = 1 THEN Shape
        ELSE SvgNode("image", 0, HrefOf(imgs[d - 1]), HrefOf(imgs[d - 1]) # << >>, << >>)]

\* <image/> without reference for every image
AnonymousStyle(imgs) ==
    [d \in 1..(1 + Len(imgs)) |->
        IF d = 1 THEN Shape ELSE SvgNode("image", 0, << >>, FALSE, << >>)]

\* <image href="files/fileId"/> for every image, the last image first
FileRefStyle(imgs) ==
    [d \in 1..(1 + Len(imgs)) |->
        IF d = 1 THEN Shape
        ELSE SvgNode("image", 0,
                     <<"f", "i", "l", "e", "s", "/">> \o imgs[Len(imgs) + 2 - d].fileId,
                     FALSE, << >>)]

\* <rect id="elementId"/> for every image
ByIdStyle(imgs) ==
    [d \in 1..(1 + Len(imgs)) |->
        IF d = 1 THEN Shape ELSE SvgNode("rect", 0, << >>, FALSE, imgs[d - 1].id)]

\* What exportToSvg can resolve to for a drawing with these images
ExportedSvgs(imgs) ==
    {SymbolStyle(imgs), InlineStyle(imgs), BareStyle(imgs), AnonymousStyle(imgs),
     FileRefStyle(imgs), ByIdStyle(imgs)}

(***************************************************************************)
(* Inputs of the colour adapter                                            *)
(***************************************************************************)
\* Two-character channel samples.  The first NumChannelSamples of them are
\* combined into six-digit colours, with and without the leading '#'.
ChannelSamples == << <<"0", "0">>, <<"f", "f">>, <<"2", "a">>, <<"6", "1">>,
                     <<"a", "2">>, <<"5", "A">>, <<"E", "7">>, <<"6", "b">>,
                     <<"5", "0">>, <<"8", "B">> >>
NumChannelSamples == 6
MaxOtherLen == 8

SixDigitInputs ==
    LET S == {ChannelSamples[i] : i \in 1..NumChannelSamples}
    IN  {p \o r \o g \o b : p \in {<< >>, <<"#">>}, r \in S, g \in S, b \in S}

\* Every string of at most MaxOtherLen characters over '#', '0' and 'g':
\* short, long, doubly prefixed and non-hex strings.
OtherInputs ==
    UNION {[1..k -> {"#", "0", "g"}] : k \in 0..MaxOtherLen}

NamedInputs ==
    {Undefined, Null, Transparent, LightGray,
     <<"r", "e", "d">>, <<"#", "f", "f", "f">>,
     <<"#", "1", "e", "1", "e", "1", "e", "8", "0">>,
     <<"f", "f", "f", "f", "f", "f", "f", "f">>}

ColorInputs == SixDigitInputs \cup OtherInputs \cup NamedInputs

(***************************************************************************)
(* The colour adapter applied to one colour                                *)
(***************************************************************************)
ColorIdle ==
    /\ hex = Undefined
    /\ lightened = Undefined
    /\ relightened = Undefined
    /\ colorPc = "idle"

LocatorIdle ==
    /\ elements = << >>
    /\ files = UndefinedObject
    /\ located = [threw |-> FALSE, images |-> << >>]
    /\ locPc = "idle"

\* No viewer is mounted.
ViewerIdle ==
    /\ identifiedImages = << >>
    /\ selectedImage = NullObject
    /\ currentImageIndex = 0
    /\ isModalOpen = FALSE
    /\ loading = FALSE
    /\ isDark = FALSE
    /\ renders = << >>
    /\ shown = NullObject
    /\ delegated = 0
    /\ handlerProp = FALSE

\* No export buttons are mounted: their state would start as lines 9-11
\* say, and no timer is set.
ButtonsIdle ==
    /\ isExcalLoading = TRUE
    /\ isPrinting = FALSE
    /\ previousThemeRef = "null"
    /\ storedTheme = "null"
    /\ printPc = "idle"
    /\ themeBeforePrint = "null"
    /\ interval = FALSE
    /\ timeout = FALSE
    /\ downloaded = "none"

InitColor ==
    /\ hex \in ColorInputs
    /\ lightened = Undefined
    /\ relightened = Undefined
    /\ colorPc = "input"
    /\ LocatorIdle
    /\ ViewerIdle
    /\ excal = FALSE
    /\ ButtonsIdle

\* A caller applies toLight to a colour (line 204, 207).
ApplyToLight ==
    /\ colorPc = "input"
    /\ lightened' = toLight(hex)
    /\ colorPc' = "once"
    /\ UNCHANGED <<hex, relightened>>
    /\ UNCHANGED <<locVars, viewerVars, exportVars>>

\* A caller applies toLight to a colour that toLight returned.
ApplyToLightAgain ==
    /\ colorPc = "once"
    /\ relightened' = toLight(lightened)
    /\ colorPc' = "twice"
    /\ UNCHANGED <<hex, lightened>>
    /\ UNCHANGED <<locVars, viewerVars, exportVars>>

NextColor == ApplyToLight \/ ApplyToLightAgain

SpecColor == InitColor /\ [][NextColor]_vars

(***************************************************************************)
(* The image locator applied to one drawing                                *)
(***************************************************************************)
InitLocator ==
    /\ \E in \in LocatorInputs : elements = in[1] /\ files = in[2]
    /\ located = [threw |-> FALSE, images |-> << >>]
    /\ locPc = "input"
    /\ ColorIdle
    /\ ViewerIdle
    /\ excal = FALSE
    /\ ButtonsIdle

\* A caller calls identifyImages (line 187).
Identify ==
    /\ locPc = "input"
    /\ located' = identifyImages(elements, files)
    /\ locPc' = "done"
    /\ UNCHANGED <<elements, files>>
    /\ UNCHANGED <<colorVars, viewerVars, exportVars>>

NextLocator == Identify

SpecLocator == InitLocator /\ [][NextLocator]_vars

(***************************************************************************)
(* The viewer: one mounted ExcalidrawArticle                               *)
(***************************************************************************)
Modal ==
    [selectedImage |-> selectedImage, currentImageIndex |-> currentImageIndex,
     isModalOpen |-> isModalOpen]

SetModal(m) ==
    /\ selectedImage' = m.selectedImage
    /\ currentImageIndex' = m.currentImageIndex
    /\ isModalOpen' = m.isModalOpen

\* Line 815: {isModalOpen && selectedImage && ( the overlay )}
ModalShown == isModalOpen /\ IsObject(selectedImage)

\* The render calls of the running effect that await exportToSvg
ActiveRenders == {k \in 1..Len(renders) : ~renders[k].cancelled}

WithoutRender(k) == SubSeq(renders, 1, k - 1) \o SubSeq(renders, k + 1, Len(renders))

\* The state after the component has mounted with a drawing articleData:
\* the drawing's images are located (line 187), the first render() awaits
\* exportToSvg with the loading flag set (lines 104, 233, 726), the modal
\* is closed.
Init ==
    /\ \E articleData \in ArticleSamples :
          identifiedImages = identifyImages(articleData[1], articleData[2]).images
    /\ LocatorIdle
    /\ ColorIdle
    /\ selectedImage = NullObject
    /\ currentImageIndex = 0
    /\ isModalOpen = FALSE
    /\ loading = TRUE
    /\ isDark = FALSE
    /\ renders = << [cancelled |-> FALSE, dark |-> FALSE, awaited |-> FALSE] >>
    /\ shown = NullObject
    /\ delegated = 0
    /\ handlerProp = FALSE
    /\ excal = TRUE
    /\ ButtonsIdle

\* The page switches the class "dark" of the document element.  Lines
\* 166-181 and 227-750: the observer sets isDark, data changes and the
\* render effect runs again: the cleanup of the old effect (lines 738-749)
\* cancels its renders and removes the delegated handler that the
\* container's property names; the new effect calls render().
ThemeChange ==
    /\ Len(renders) < MaxRenders
    /\ isDark' = ~isDark
    /\ renders' = Append([k \in 1..Len(renders) |-> [renders[k] EXCEPT !.cancelled = TRUE]],
                         [cancelled |-> FALSE, dark |-> ~isDark, awaited |-> FALSE])
    /\ delegated' = IF handlerProp THEN delegated - 1 ELSE delegated
    /\ handlerProp' = FALSE
    /\ loading' = TRUE
    /\ UNCHANGED <<colorVars, locVars, identifiedImages, modalVars, shown>>
    /\ UNCHANGED exportVars

\* Lines 729-732: handleBeforePrint calls render(true)
BeforePrint ==
    /\ Len(renders) < MaxRenders
    /\ delegated + Cardinality(ActiveRenders) < MaxListeners
    /\ renders' = Append(renders, [cancelled |-> FALSE, dark |-> FALSE,
                                 awaited |-> FALSE])
    /\ loading' = TRUE
    /\ UNCHANGED <<colorVars, locVars, identifiedImages, modalVars>>
    /\ UNCHANGED <<isDark, shown, delegated, handlerProp, exportVars>>

\* The finally of render clears the loading flag whatever the effect's
\* cancellation flag says.
LoadingAfterUnconditional(r) == FALSE

\* Lines 718-720: finally { if (!cancelled) setLoading(false) }
LoadingAfter(r) == IF r.cancelled THEN loading ELSE FALSE

\* The container keeps the output it already holds.
OutputOfKeepingFirst(r, exported) ==
    IF shown # NullObject THEN shown
    ELSE [svg |-> Annotate(exported, identifiedImages), dark |-> r.dark]

\* Lines 303-644: what containerRef.current.replaceChildren(svgEl) leaves
\* in the container: the annotated SVG of render call r.
OutputOf(r, exported) ==
    [svg |-> Annotate(exported, identifiedImages), dark |-> r.dark]

\* Lines 288-720: the exportToSvg of render call k resolves.  A cancelled
\* render returns at line 301; any other annotates the SVG, puts it in
\* the container and, with located images, adds a delegated handler.
ExportResolvesOf(k) ==
    /\ renders' = WithoutRender(k)
    /\ IF renders[k].cancelled
       THEN UNCHANGED <<shown, delegated, handlerProp>>
       ELSE /\ \E exported \in ExportedSvgs(identifiedImages) :
                  shown' = OutputOf(renders[k], exported)
            /\ delegated' = IF Len(identifiedImages) > 0
                            THEN delegated + 1 ELSE delegated
            /\ handlerProp' = (handlerProp \/ Len(identifiedImages) > 0)
    /\ loading' = LoadingAfter(renders[k])
    /\ UNCHANGED <<colorVars, locVars, identifiedImages, modalVars, isDark>>
    /\ UNCHANGED exportVars

ExportResolves == \E k \in 1..Len(renders) : ExportResolvesOf(k)

\* Lines 716-720: the exportToSvg of render call k rejects: the error is
\* logged and the container is left as it is.
ExportRejectsOf(k) ==
    /\ renders' = WithoutRender(k)
    /\ loading' = LoadingAfter(renders[k])
    /\ UNCHANGED <<colorVars, locVars, identifiedImages, modalVars>>
    /\ UNCHANGED <<isDark, shown, delegated, handlerProp, exportVars>>

ExportRejects == \E k \in 1..Len(renders) : ExportRejectsOf(k)

\* A pointer click on element d of the SVG in the container.  The loading
\* overlay (lines 804-811) and the modal overlay (lines 815-817) lie over
\* the container while they are shown.
ClickElement(d) ==
    /\ shown # NullObject
    /\ ~loading
    /\ ~ModalShown
    /\ d \in ClickTargets(shown.svg)
    /\ SetModal(Dispatch(shown.svg, identifiedImages, d, delegated, Modal))
    /\ UNCHANGED <<colorVars, locVars, identifiedImages, renderVars, exportVars>>

ClickNode == \E d \in 1..(1 + 4 * MaxElements) : ClickElement(d)

\* Lines 778-798: a key reaches handleKeyboard while the modal is open
KeyDown(key) ==
    /\ isModalOpen
    /\ SetModal(handleKeyboard(identifiedImages, key, Modal))
    /\ UNCHANGED <<colorVars, locVars, identifiedImages, renderVars, exportVars>>

KeyEscape == KeyDown("Escape")
KeyArrowRight == KeyDown("ArrowRight")
KeyArrowLeft == KeyDown("ArrowLeft")

\* Lines 815-913: a click on an element of the modal
ClickModal(target) ==
    /\ ModalShown
    /\ target \in ModalTargets(identifiedImages)
    /\ SetModal(Bubble(identifiedImages, BubblePath(target), 1, Modal))
    /\ UNCHANGED <<colorVars, locVars, identifiedImages, renderVars, exportVars>>

ClickBackdrop == ClickModal("backdrop")
ClickContent == ClickModal("content")
ClickCloseButton == ClickModal("close")
ClickPrevButton == ClickModal("prev")
ClickNextButton == ClickModal("next")

Next ==
    \/ ThemeChange
    \/ BeforePrint
    \/ ExportResolves
    \/ ExportRejects
    \/ ClickNode
    \/ KeyEscape
    \/ KeyArrowRight
    \/ KeyArrowLeft
    \/ ClickBackdrop
    \/ ClickContent
    \/ ClickCloseButton
    \/ ClickPrevButton
    \/ ClickNextButton

Spec == Init /\ [][Next]_vars

(***************************************************************************)
(* The export buttons (ExportButtons.tsx) on a page with or without a      *)
(* viewer.  The document's class "dark" is isDark: the viewer's observer   *)
(* (part_001 lines 165-181) copies the class into its state as soon as it  *)
(* changes, and the render effect then runs again.                         *)
(***************************************************************************)
\* The drawings of the pages with export buttons: without and with an image
ExportArticles ==
    { << <<Element(3, 1, 1)>>, NoFiles >>,
      << <<Element(1, 1, 1)>>, [entries |-> (F1 :> ReadyAsset)] >> }

\* Lines 15-26: checkLoading() returns what the viewer's hook __isLoading
\* reports, and true when the page has no element with that hook.
checkLoading == IF excal THEN loading ELSE TRUE

\* The theme is noted after the class "dark" has been removed.
ThemeNameAfterSwitch(dark) == "light"

\* Line 62: isDark ? 'dark' : 'light'
ThemeName(dark) == IF dark THEN "dark" ELSE "light"

\* handlePrintPDF goes on without waiting for __forceLightRender().
ForcedRenderNotAwaited == TRUE

\* Line 71: await excalContainer.__forceLightRender() has returned: the
\* render call it started (part_001 lines 154-158) has ended.
ForcedRenderSettled == \A k \in 1..Len(renders) : ~renders[k].awaited

\* Lines 738-740: the cleanup of the render effect cancels its render calls
CancelAll(rs) == [k \in 1..Len(rs) |-> [rs[k] EXCEPT !.cancelled = TRUE]]

\* A render call that starts: render() of a new effect (dark data in the
\* dark theme), render(true) of handleBeforePrint
EffectRender(dark) == [cancelled |-> FALSE, dark |-> dark, awaited |-> FALSE]

\* The state after the viewer (when the page has one) and the export
\* buttons have mounted: the first render awaits exportToSvg, the buttons'
\* first checkLoading() (line 29) has found the viewer loading or absent,
\* the interval and the timeout are set (lines 32-43).
InitExport ==
    /\ excal \in BOOLEAN
    /\ LocatorIdle
    /\ ColorIdle
    /\ selectedImage = NullObject
    /\ currentImageIndex = 0
    /\ isModalOpen = FALSE
    /\ isDark = FALSE
    /\ shown = NullObject
    /\ delegated = 0
    /\ handlerProp = FALSE
    /\ IF excal
       THEN /\ \E articleData \in ExportArticles :
                  identifiedImages =
                      identifyImages(articleData[1], articleData[2]).images
            /\ loading = TRUE
            /\ renders = << EffectRender(FALSE) >>
       ELSE /\ identifiedImages = << >>
            /\ loading = FALSE
            /\ renders = << >>
    /\ isExcalLoading = TRUE
    /\ isPrinting = FALSE
    /\ previousThemeRef = "null"
    /\ storedTheme = "null"
    /\ printPc = "idle"
    /\ themeBeforePrint = "null"
    /\ interval = TRUE
    /\ timeout = TRUE
    /\ downloaded = "none"

\* The page switches the class "dark" of the document element.
ToggleTheme ==
    IF excal
    THEN ThemeChange
    ELSE /\ isDark' = ~isDark
         /\ UNCHANGED <<colorVars, locVars, identifiedImages, modalVars>>
         /\ UNCHANGED <<loading, renders, shown, delegated, handlerProp, exportVars>>

\* Lines 32-37: the interval fires: checkLoading() sets isExcalLoading, and
\* the interval is cleared when the viewer is not loading.
PollTick ==
    /\ interval
    /\ isExcalLoading' = checkLoading
    /\ interval' = checkLoading
    /\ UNCHANGED <<colorVars, locVars, viewerVars>>
    /\ UNCHANGED <<excal, isPrinting, previousThemeRef, storedTheme, printPc,
                   themeBeforePrint, timeout, downloaded>>

\* The timeout clears isExcalLoading and leaves the interval set.
PollTimeoutKeepingInterval ==
    /\ timeout
    /\ timeout' = FALSE
    /\ isExcalLoading' = FALSE
    /\ UNCHANGED <<colorVars, locVars, viewerVars>>
    /\ UNCHANGED <<excal, isPrinting, previousThemeRef, storedTheme, printPc,
                   themeBeforePrint, interval, downloaded>>

\* Lines 40-43: the timeout fires after 10 s
PollTimeout ==
    /\ timeout
    /\ timeout' = FALSE
    /\ interval' = FALSE
    /\ isExcalLoading' = FALSE
    /\ UNCHANGED <<colorVars, locVars, viewerVars>>
    /\ UNCHANGED <<excal, isPrinting, previousThemeRef, storedTheme, printPc,
                   themeBeforePrint, downloaded>>

\* Lines 51-72: the print button is pressed (it is disabled while
\* isPrinting or isExcalLoading, line 197).  The handler notes the theme,
\* removes the class "dark" and calls __forceLightRender(), which starts
\* render(true) of the current effect; when the class was there, the theme
\* change then runs the effect again, which cancels that render and starts
\* its own.  Without a viewer the handler goes on to lines 75-79 at once.
PressPrint ==
    /\ ~isPrinting
    /\ ~isExcalLoading
    /\ isPrinting' = TRUE
    /\ previousThemeRef' = ThemeName(isDark)
    /\ themeBeforePrint' = ThemeName(isDark)
    /\ isDark' = FALSE
    /\ storedTheme' = "light"
    /\ IF excal
       THEN /\ IF isDark
               THEN /\ Len(renders) + 2 <= MaxRenders
                    /\ renders' = CancelAll(renders)
                                  \o << [cancelled |-> TRUE, dark |-> FALSE,
                                         awaited |-> TRUE],
                                        EffectRender(FALSE) >>
                    /\ delegated' = IF handlerProp THEN delegated - 1
                                    ELSE delegated
                    /\ handlerProp' = FALSE
               ELSE /\ Len(renders) < MaxRenders
                    /\ delegated + Cardinality(ActiveRenders) < MaxListeners
                    /\ renders' = Append(renders,
                                         [cancelled |-> FALSE, dark |-> FALSE,
                                          awaited |-> TRUE])
                    /\ UNCHANGED <<delegated, handlerProp>>
            /\ loading' = TRUE
            /\ printPc' = "rendering"
       ELSE /\ printPc' = "settling"
            /\ UNCHANGED <<loading, renders, delegated, handlerProp>>
    /\ UNCHANGED <<colorVars, locVars, identifiedImages, modalVars, shown>>
    /\ UNCHANGED <<excal, isExcalLoading, interval, timeout, downloaded>>

\* Lines 71-79: __forceLightRender() has returned; the handler dispatches
\* beforeprint, on which the viewer calls render(true) (part_001 lines
\* 729-732), and starts the settle delay of 300 ms.
PrintDispatch ==
    /\ printPc = "rendering"
    /\ ForcedRenderSettled
    /\ Len(renders) < MaxRenders
    /\ delegated + Cardinality(ActiveRenders) < MaxListeners
    /\ renders' = Append(renders, EffectRender(FALSE))
    /\ loading' = TRUE
    /\ printPc' = "settling"
    /\ UNCHANGED <<colorVars, locVars, identifiedImages, modalVars>>
    /\ UNCHANGED <<isDark, shown, delegated, handlerProp>>
    /\ UNCHANGED <<excal, isExcalLoading, isPrinting, previousThemeRef,
                   storedTheme, themeBeforePrint, interval, timeout, downloaded>>

\* Lines 79-82: the settle delay has elapsed and the handler calls
\* window.print(): the browser fires beforeprint, on which the viewer calls
\* render(true), and opens the print dialog.
PrintInvoke ==
    /\ printPc = "settling"
    /\ printPc' = "dialog"
    /\ IF excal
       THEN /\ Len(renders) < MaxRenders
            /\ delegated + Cardinality(ActiveRenders) < MaxListeners
            /\ renders' = Append(renders, EffectRender(FALSE))
            /\ loading' = TRUE
       ELSE UNCHANGED <<renders, loading>>
    /\ UNCHANGED <<colorVars, locVars, identifiedImages, modalVars>>
    /\ UNCHANGED <<isDark, shown, delegated, handlerProp>>
    /\ UNCHANGED <<excal, isExcalLoading, isPrinting, previousThemeRef,
                   storedTheme, themeBeforePrint, interval, timeout, downloaded>>

\* The reader prints from the browser's menu or with Ctrl+P, with no press
\* in progress or after one that ended in the catch block: the browser
\* fires beforeprint, on which the viewer calls render(true) (part_001
\* lines 729-732), and opens its dialog.  The buttons' code does not run.
BrowserPrint ==
    /\ printPc \in {"idle", "caught"}
    /\ printPc' = "browser"
    /\ themeBeforePrint' = ThemeName(isDark)
    /\ IF excal
       THEN /\ Len(renders) < MaxRenders
            /\ delegated + Cardinality(ActiveRenders) < MaxListeners
            /\ renders' = Append(renders, EffectRender(FALSE))
            /\ loading' = TRUE
       ELSE UNCHANGED <<renders, loading>>
    /\ UNCHANGED <<colorVars, locVars, identifiedImages, modalVars>>
    /\ UNCHANGED <<isDark, shown, delegated, handlerProp>>
    /\ UNCHANGED <<excal, isExcalLoading, isPrinting, previousThemeRef,
                   storedTheme, interval, timeout, downloaded>>

\* Lines 82-87: window.print() throws (a host without a print function);
\* the catch logs the error, the finally block is empty and the handler
\* ends.  No dialog opens, so no afterprint follows.
PrintThrows ==
    /\ printPc = "settling"
    /\ printPc' = "caught"
    /\ UNCHANGED <<colorVars, locVars, viewerVars>>
    /\ UNCHANGED <<excal, isExcalLoading, isPrinting, previousThemeRef,
                   storedTheme, themeBeforePrint, interval, timeout, downloaded>>

\* Lines 90-108: the dialog is closed and the browser fires afterprint:
\* handleAfterPrint puts the noted theme back and clears isPrinting.  When
\* that changes the class "dark", the viewer's effect runs again.
AfterPrint ==
    /\ printPc \in {"dialog", "browser"}
    /\ printPc' = "idle"
    /\ themeBeforePrint' = "null"
    /\ isPrinting' = FALSE
    /\ isDark' = (previousThemeRef = "dark")
    /\ storedTheme' = IF previousThemeRef = "dark" THEN "dark" ELSE "light"
    /\ IF excal /\ isDark' # isDark
       THEN /\ Len(renders) < MaxRenders
            /\ renders' = Append(CancelAll(renders), EffectRender(isDark'))
            /\ delegated' = IF handlerProp THEN delegated - 1 ELSE delegated
            /\ handlerProp' = FALSE
            /\ loading' = TRUE
       ELSE UNCHANGED <<renders, delegated, handlerProp, loading>>
    /\ UNCHANGED <<colorVars, locVars, identifiedImages, modalVars, shown>>
    /\ UNCHANGED <<excal, isExcalLoading, previousThemeRef, interval, timeout,
                   downloaded>>

\* part_001 lines 151-160: the functions the viewer puts on the
\* [data-excal] element
ViewerHooks == {"__generateLightSVG", "__forceLightRender", "__isLoading"}

\* Lines 133-149: the SVG in the viewer's container; failing that, one
\* found elsewhere in the article, if the article has one; else an alert.
RenderedSources ==
    IF shown # NullObject THEN {"container"} ELSE {"article", "alert"}

\* Lines 118-149: what handleDownloadSVG can end with.  Without a
\* [data-excal] element it alerts at once; a hook __generateSVG is called
\* when the element has one, and the rendered SVG is taken when the hook
\* is missing or returns null.
DownloadSources ==
    IF ~excal THEN {"alert"}
    ELSE IF "__generateSVG" \in ViewerHooks
         THEN {"generator"} \cup RenderedSources
         ELSE RenderedSources

\* Lines 110-178: the download button is pressed (it is disabled while
\* isExcalLoading, line 229).
PressDownload ==
    /\ ~isExcalLoading
    /\ downloaded' \in DownloadSources
    /\ UNCHANGED <<colorVars, locVars, viewerVars>>
    /\ UNCHANGED <<excal, isExcalLoading, isPrinting, previousThemeRef,
                   storedTheme, printPc, themeBeforePrint, interval, timeout>>

NextExport ==
    \/ ToggleTheme
    \/ ExportResolves
    \/ ExportRejects
    \/ PollTick
    \/ PollTimeout
    \/ PressPrint
    \/ PrintDispatch
    \/ PrintInvoke
    \/ AfterPrint
    \/ PressDownload

SpecExport == InitExport /\ [][NextExport]_vars

\* The event loop runs a timer's callback once the timer is due.
SpecExportFair == SpecExport /\ WF_vars(PollTimeout)

\* The print path with the prints the browser starts and the presses that
\* end in the catch block
NextPrint ==
    \/ ToggleTheme
    \/ ExportResolves
    \/ ExportRejects
    \/ PollTick
    \/ PollTimeout
    \/ PressPrint
    \/ PrintDispatch
    \/ PrintInvoke
    \/ PrintThrows
    \/ BrowserPrint
    \/ AfterPrint

SpecPrint == InitExport /\ [][NextPrint]_vars

(***************************************************************************)
(* Claims about the colour adapter                                         *)
(***************************************************************************)
HexChars == {"0", "1", "2", "3", "4", "5", "6", "7", "8", "9",
             "a", "b", "c", "d", "e", "f", "A", "B", "C", "D", "E", "F"}

\* The digits of a colour string: the string without its leading '#'.
ColourBody(s) == IF s # << >> /\ Head(s) = "#" THEN Tail(s) ELSE s

\* s is six hex digits with an optional leading '#', in any letter case.
IsSixHexColour(s) ==
    /\ IsString(s)
    /\ Len(ColourBody(s)) = 6
    /\ \A i \in 1..6 : ColourBody(s)[i] \in HexChars

\* The k-th channel (1 = R, 2 = G, 3 = B) of a six-hex-digit colour.
ChannelOf(s, k) ==
    16 * HexDigitValue(ColourBody(s)[2 * k - 1]) + HexDigitValue(ColourBody(s)[2 * k])

\* 0.2126*R + 0.7152*G + 0.0722*B < 90 over the reals, scaled by 10000.
ExactLumaBelow90(s) ==
    2126 * ChannelOf(s, 1) + 7152 * ChannelOf(s, 2) + 722 * ChannelOf(s, 3) < 900000

\* The same comparison with the sum evaluated in double precision, left to
\* right, each product and sum rounded.
DoubleLumaBelow90(s) ==
    BigLess(DoubleAdd(DoubleAdd(DoubleMul(D_0_2126, ChannelOf(s, 1)),
                                DoubleMul(D_0_7152, ChannelOf(s, 2))),
                      DoubleMul(D_0_0722, ChannelOf(s, 3))),
            D_90)

Black == <<"#", "0", "0", "0", "0", "0", "0">>
White == <<"#", "f", "f", "f", "f", "f", "f">>

\* C4 (as stated): for every six-hex-digit colour, toLight returns "#e5e7eb"
\* exactly when the real-valued luma 0.2126 R + 0.7152 G + 0.0722 B is below
\* 90, and returns its input unchanged otherwise.
C4_ExactLuma ==
    (colorPc # "input" /\ IsSixHexColour(hex)) =>
        lightened = (IF ExactLumaBelow90(hex) THEN LightGray ELSE hex)

\* C4 (amended): for every six-hex-digit colour, toLight returns "#e5e7eb"
\* exactly when the luma sum evaluated in double-precision arithmetic is
\* below 90, and returns its input unchanged otherwise; black is replaced
\* and white is returned unchanged.
C4_DoubleLuma ==
    (colorPc # "input") =>
        /\ IsSixHexColour(hex) =>
              lightened = (IF DoubleLumaBelow90(hex) THEN LightGray ELSE hex)
        /\ hex = Black => lightened = LightGray
        /\ hex = White => lightened = White

C4_Witness ==
    /\ colorPc = "once"
    /\ IsSixHexColour(hex)
    /\ DoubleLumaBelow90(hex)
    /\ ChannelOf(hex, 2) > 0
    /\ lightened = LightGray

\* A colour whose real-valued luma is exactly 90 and whose computed luma is
\* below 90 is reached and replaced.
C4_RoundingWitness ==
    /\ colorPc = "once"
    /\ IsSixHexColour(hex)
    /\ ~ExactLumaBelow90(hex)
    /\ lightened = LightGray

\* C5: toLight is idempotent on every six-hex-digit colour:
\* toLight(toLight(c)) = toLight(c).
C5_Idempotent ==
    (colorPc = "twice" /\ IsSixHexColour(hex)) => relightened = lightened

C5_Witness ==
    /\ colorPc = "twice"
    /\ IsSixHexColour(hex)
    /\ hex # LightGray
    /\ lightened = LightGray
    /\ relightened = LightGray

\* C6: toLight returns its input unchanged for "transparent" and for every
\* input that is not six hex digits with an optional leading '#'
\* (undefined, null, the empty string, short, long and non-hex strings).
C6_PassThrough ==
    (colorPc # "input" /\ (hex = Transparent \/ ~IsSixHexColour(hex))) =>
        lightened = hex

C6_Witness ==
    /\ colorPc = "once"
    /\ IsString(hex)
    /\ Len(hex) = 8
    /\ \A i \in 1..8 : hex[i] \in HexChars
    /\ lightened = hex

C6_WitnessUndefined == colorPc = "once" /\ hex = Undefined /\ lightened = Undefined

(***************************************************************************)
(* Claims about the image locator                                          *)
(***************************************************************************)
\* Every entry of the list is an element and the asset map is a map (or is
\* not passed).
WellFormedInput ==
    /\ \A i \in 1..Len(elements) : IsObject(elements[i])
    /\ files # NullObject

\* v is present and not the empty string.
NonEmpty(v) == v # Undefined /\ v # Null /\ v # << >>

\* The element's type is "image" and its fileId is non-empty.
Qualifies(e) == e.type = ImageType /\ NonEmpty(e.fileId)

QualifyingElements == SelectSeq(elements, Qualifies)

\* The asset record of an element, UndefinedObject when the map has none.
AssetOf(e) ==
    IF files # UndefinedObject /\ e.fileId \in DOMAIN files.entries
    THEN files.entries[e.fileId]
    ELSE UndefinedObject

ZeroIfAbsent(v) == IF v = Undefined \/ v = Null THEN Num(0) ELSE v

\* C1: identifyImages returns exactly one descriptor per element whose type
\* is "image" and whose fileId is non-empty, none for any other element,
\* in the order of the elements.
C1_OnePerImageInOrder ==
    (locPc = "done" /\ WellFormedInput) =>
        /\ ~located.threw
        /\ Len(located.images) = Len(QualifyingElements)
        /\ \A i \in 1..Len(QualifyingElements) :
              /\ located.images[i].id = QualifyingElements[i].id
              /\ located.images[i].fileId = QualifyingElements[i].fileId

C1_Witness ==
    /\ locPc = "done"
    /\ Len(elements) = 3
    /\ Qualifies(elements[1]) /\ ~Qualifies(elements[2]) /\ Qualifies(elements[3])
    /\ Len(located.images) = 2
    /\ located.images[1].id = ElementId(1)
    /\ located.images[2].id = ElementId(3)

\* C2: the descriptor's dataUrl is the record's dataURL when it has one;
\* else "data:" + mimeType + ";base64," + data when it has raw data, the
\* mimeType being "image/png" when the record declares none; else
\* undefined.  For "image/jpeg": "data:image/jpeg;base64," + data.
C2_DataUrlRule ==
    (locPc = "done" /\ WellFormedInput) =>
        /\ Len(located.images) = Len(QualifyingElements)
        /\ \A i \in 1..Len(QualifyingElements) :
              LET rec == AssetOf(QualifyingElements[i])
                  url == located.images[i].dataUrl
              IN  IsObject(rec) =>
                    /\ NonEmpty(rec.dataURL) => url = rec.dataURL
                    /\ (~NonEmpty(rec.dataURL) /\ NonEmpty(rec.data)) =>
                          url = DataScheme
                                \o (IF NonEmpty(rec.mimeType) THEN rec.mimeType
                                    ELSE ImagePng)
                                \o Base64Marker \o rec.data
                    /\ (~NonEmpty(rec.dataURL) /\ rec.data = RawData
                        /\ rec.mimeType = ImageJpeg) =>
                          url = <<"d", "a", "t", "a", ":", "i", "m", "a", "g", "e",
                                  "/", "j", "p", "e", "g", ";", "b", "a", "s", "e",
                                  "6", "4", ",", "Q", "U", "J", "D">>
                    /\ (~NonEmpty(rec.dataURL) /\ ~NonEmpty(rec.data)) =>
                          url = Undefined

\* A record with both a ready data URL and raw data: the ready one is used.
C2_Witness ==
    /\ locPc = "done"
    /\ Len(located.images) = 1
    /\ IsObject(AssetOf(elements[1]))
    /\ NonEmpty(AssetOf(elements[1]).dataURL)
    /\ NonEmpty(AssetOf(elements[1]).data)
    /\ located.images[1].dataUrl = ReadyUrl

C2_WitnessJpeg ==
    /\ locPc = "done"
    /\ Len(located.images) >= 1
    /\ located.images[1].dataUrl = DataScheme \o ImageJpeg \o Base64Marker \o RawData

\* C3: an image element whose fileId has no entry in the asset map still
\* gets a descriptor, carrying the element's id, fileId and geometry, with
\* dataUrl, fileName and mimeType undefined.
C3_GeometryOnly ==
    (locPc = "done" /\ WellFormedInput) =>
        /\ Len(located.images) = Len(QualifyingElements)
        /\ \A i \in 1..Len(QualifyingElements) :
              LET e == QualifyingElements[i]
              IN  AssetOf(e) = UndefinedObject =>
                    located.images[i] =
                        [id |-> e.id, fileId |-> e.fileId,
                         x |-> ZeroIfAbsent(e.x), y |-> ZeroIfAbsent(e.y),
                         width |-> ZeroIfAbsent(e.width),
                         height |-> ZeroIfAbsent(e.height),
                         fileName |-> Undefined, mimeType |-> Undefined,
                         dataUrl |-> Undefined]

\* A drawing whose second image has no asset record while its first has one.
C3_Witness ==
    /\ locPc = "done"
    /\ Len(located.images) = 2
    /\ IsObject(AssetOf(QualifyingElements[1]))
    /\ AssetOf(QualifyingElements[2]) = UndefinedObject
    /\ located.images[2].fileId = F3
    /\ located.images[2].dataUrl = Undefined
    /\ located.images[2].x = Num(10)

\* C18: for a descriptor whose asset record exists, fileName is the record's
\* name when that is a non-empty string, otherwise the record's id when that
\* is a non-empty string, otherwise the element's fileId.
C18_FileNameRule ==
    (locPc = "done" /\ WellFormedInput) =>
        /\ Len(located.images) = Len(QualifyingElements)
        /\ \A i \in 1..Len(QualifyingElements) :
              LET e   == QualifyingElements[i]
                  rec == AssetOf(e)
              IN  IsObject(rec) =>
                    located.images[i].fileName =
                        IF NonEmpty(rec.name) THEN rec.name
                        ELSE IF NonEmpty(rec.id) THEN rec.id
                        ELSE e.fileId

\* A record with an empty name and an id: the id is the display name.
C18_Witness ==
    /\ locPc = "done"
    /\ Len(located.images) = 1
    /\ IsObject(AssetOf(QualifyingElements[1]))
    /\ AssetOf(QualifyingElements[1]).name = << >>
    /\ AssetOf(QualifyingElements[1]).id = AssetId
    /\ located.images[1].fileName = AssetId

\* A record with neither name nor id: the fileId is the display name.
C18_WitnessFileId ==
    /\ locPc = "done"
    /\ Len(located.images) = 1
    /\ IsObject(AssetOf(QualifyingElements[1]))
    /\ AssetOf(QualifyingElements[1]).name = Undefined
    /\ AssetOf(QualifyingElements[1]).id = Undefined
    /\ located.images[1].fileName = F1

\* C19: for every image element, each of the descriptor's x, y, width and
\* height is the element's field, and 0 when the field is undefined or null.
C19_GeometryDefaults ==
    (locPc = "done" /\ WellFormedInput) =>
        /\ Len(located.images) = Len(QualifyingElements)
        /\ \A i \in 1..Len(QualifyingElements) :
              LET e == QualifyingElements[i]
                  d == located.images[i]
              IN  /\ d.x = (IF e.x \in {Undefined, Null} THEN Num(0) ELSE e.x)
                  /\ d.y = (IF e.y \in {Undefined, Null} THEN Num(0) ELSE e.y)
                  /\ d.width =
                        (IF e.width \in {Undefined, Null} THEN Num(0) ELSE e.width)
                  /\ d.height =
                        (IF e.height \in {Undefined, Null} THEN Num(0) ELSE e.height)

\* An image with an asset record, a null width, an undefined y and a
\* negative x.
C19_Witness ==
    /\ locPc = "done"
    /\ Len(located.images) = 1
    /\ IsObject(AssetOf(QualifyingElements[1]))
    /\ QualifyingElements[1].width = Null
    /\ QualifyingElements[1].y = Undefined
    /\ located.images[1].width = Num(0)
    /\ located.images[1].y = Num(0)
    /\ located.images[1].x = Num(0 - 5)
    /\ located.images[1].height = Num(7)

\* C20: identifyImages never raises, whatever the element list and the asset
\* map: it always returns a descriptor list.
C20_NeverRaises == locPc = "done" => ~located.threw

\* Without null or undefined entries and without a null asset map it
\* returns a list.
C20_WellFormedReturns == (locPc = "done" /\ WellFormedInput) => ~located.threw

(***************************************************************************)
(* Claims about the lightbox modal                                         *)
(***************************************************************************)
ModalClosed == ~isModalOpen /\ selectedImage = NullObject

NextStep == KeyArrowRight \/ ClickNextButton
PrevStep == KeyArrowLeft \/ ClickPrevButton
CloseStep == KeyEscape \/ ClickBackdrop \/ ClickCloseButton

\* The elements of the shown SVG
MaxNodes == 1 + 4 * MaxElements

\* C7: with N > 0 located images and the modal open at index i, every
\* 'next' step (ArrowRight or the next button) leads to index (i+1) mod N
\* and every 'previous' step (ArrowLeft or the previous button) to index
\* (i-1+N) mod N; the selected image becomes the descriptor at the new
\* index and the modal stays open.
C7_NavigationWraps ==
    LET N == Len(identifiedImages)
        At(i) == /\ currentImageIndex' = i
                 /\ selectedImage' = identifiedImages[i + 1]
                 /\ isModalOpen'
    IN  (isModalOpen /\ N > 0) =>
            /\ ENABLED KeyArrowRight
            /\ ENABLED KeyArrowLeft
            /\ ~ENABLED (NextStep /\ ~At((currentImageIndex + 1) % N))
            /\ ~ENABLED (PrevStep /\ ~At((currentImageIndex - 1 + N) % N))

\* The modal is open on the last of three images, where 'previous' from
\* index 0 and 'next' from index 1 lead.
C7_Witness ==
    /\ isModalOpen
    /\ Len(identifiedImages) = 3
    /\ currentImageIndex = 2
    /\ selectedImage = identifiedImages[3]

\* C8: in every state where the modal is open, whatever the index, an
\* Escape key press is handled and leads to the closed modal: isModalOpen
\* false and no selected image.
C8_EscapeCloses ==
    isModalOpen =>
        /\ ENABLED KeyEscape
        /\ ~ENABLED (KeyEscape /\ ~ModalClosed')

\* The modal has been open at an index other than 0 and is closed.
C8_Witness == ModalClosed /\ currentImageIndex > 0

\* C9: a click on a rendered node that was associated with the located
\* descriptor number i, the modal being closed, opens the modal with that
\* descriptor selected and with i (counted from 0: i - 1) as the current
\* navigation index.
C9_ClickOpensAtIndex ==
    \A d \in 1..MaxNodes :
        ~ENABLED (/\ ClickElement(d)
                  /\ shown.svg[d].info # 0
                  /\ ~(/\ isModalOpen'
                       /\ selectedImage' = identifiedImages[shown.svg[d].info]
                       /\ currentImageIndex' = shown.svg[d].info - 1))

\* C10: from every open modal state a click on the backdrop or on the
\* close button leads to the closed modal, and a click on the content
\* leaves the modal open with its selection; the closed modal is the only
\* state in which no next, previous or close step is enabled.
C10_BackdropCloses ==
    /\ isModalOpen =>
          /\ ENABLED ClickBackdrop
          /\ ENABLED ClickCloseButton
          /\ ENABLED ClickContent
          /\ ~ENABLED ((ClickBackdrop \/ ClickCloseButton) /\ ~ModalClosed')
          /\ ~ENABLED (ClickContent /\ ~(isModalOpen' /\ selectedImage' = selectedImage))
    /\ ModalClosed <=> ~ENABLED (NextStep \/ PrevStep \/ CloseStep)

\* The modal is open on the second image of a drawing.
C10_Witness ==
    /\ isModalOpen
    /\ Len(identifiedImages) > 1
    /\ selectedImage = identifiedImages[2]
    /\ ENABLED ClickBackdrop
    /\ ENABLED ClickContent

(***************************************************************************)
(* Claims about concurrent renders                                         *)
(***************************************************************************)
\* C14: a render whose effect has been cancelled never applies its result:
\* whether its export resolves or rejects, the container's output, its
\* delegated handlers and the loading flag stay as they are.
C14_CancelledNeverApplies ==
    \A k \in 1..Len(renders) :
        renders[k].cancelled =>
            /\ ~ENABLED (ExportResolvesOf(k)
                         /\ (shown' # shown \/ loading' # loading
                             \/ delegated' # delegated))
            /\ ~ENABLED (ExportRejectsOf(k)
                         /\ (shown' # shown \/ loading' # loading))

\* A cancelled render is in flight while the container holds an output and
\* the loading flag is set by the render that replaced it.
C14_Witness ==
    \E k \in 1..Len(renders) :
        /\ renders[k].cancelled
        /\ loading
        /\ shown # NullObject
        /\ ENABLED ExportResolvesOf(k)

\* A step that removes render call k and leaves the container and its
\* handlers as they were: the export failed, or its output and handlers
\* are those already there.
ContainerUntouched ==
    shown' = shown /\ delegated' = delegated /\ handlerProp' = handlerProp

\* C15: every step that starts a render sets the loading flag, and every
\* step in which a non-cancelled render ends with its export resolved
\* leaves in the container the output of that render, whatever it held:
\* the output shown is that of the render that resolved last.
C15_LastResolvedShown ==
    [][ /\ Len(renders') > Len(renders) => loading'
        /\ \A k \in ActiveRenders :
              (renders' = WithoutRender(k) /\ ~ContainerUntouched) =>
                  /\ IsObject(shown')
                  /\ shown'.dark = renders[k].dark
                  /\ ~loading' ]_vars

\* Two renders of one effect overlap, the first with the dark data and the
\* second forced light, while the container holds an earlier output.
C15_Witness ==
    /\ Len(renders) = 2
    /\ ActiveRenders = {1, 2}
    /\ renders[1].dark /\ ~renders[2].dark
    /\ shown # NullObject

\* The forced light render resolved last: its output is shown in the dark
\* theme.
C15_WitnessLast ==
    /\ renders = << >>
    /\ isDark
    /\ shown # NullObject
    /\ ~shown.dark

\* C16: when the export of a non-cancelled render fails, the loading flag
\* ends false, the viewer holds no rendered output and no render is started
\* as a retry.
C16_FailureLeavesNoOutput ==
    \A k \in ActiveRenders :
        ~ENABLED (ExportRejectsOf(k)
                  /\ ~(/\ ~loading'
                       /\ shown' = NullObject
                       /\ Len(renders') = Len(renders) - 1))

\* The failure clears the loading flag and starts no render; the container
\* keeps what it held.
C16_FailureClearsLoading ==
    \A k \in ActiveRenders :
        ~ENABLED (ExportRejectsOf(k)
                  /\ ~(/\ ~loading'
                       /\ shown' = shown
                       /\ Len(renders') = Len(renders) - 1))

(***************************************************************************)
(* Claims about the export buttons                                         *)
(***************************************************************************)
\* C11: on the print path the steps come in one order: the button starts
\* the forced render and waits for it; the settle delay starts only when
\* that render call has ended; the print dialog is invoked only from the
\* settle delay.  At no time of the delay or of the dialog is the awaited
\* render still in flight.
C11_PrintOrder ==
    [][ /\ (printPc' = "rendering" /\ printPc # "rendering") =>
              /\ printPc = "idle"
              /\ excal
              /\ \E k \in 1..Len(renders') : renders'[k].awaited
        /\ (printPc' = "settling" /\ printPc # "settling") =>
              IF excal
              THEN /\ printPc = "rendering"
                   /\ \A k \in 1..Len(renders) : ~renders[k].awaited
              ELSE printPc = "idle"
        /\ (printPc' = "dialog" /\ printPc # "dialog") => printPc = "settling"
        /\ printPc' \in {"settling", "dialog"} =>
              \A k \in 1..Len(renders') : ~renders'[k].awaited ]_vars

\* The dialog is open on a page with a viewer, after a press in the dark
\* theme.
C11_Witness ==
    /\ printPc = "dialog"
    /\ excal
    /\ previousThemeRef = "dark"

\* C12: the press notes the theme in force before it, the note is kept
\* while isPrinting, and the step that handles afterprint leaves the class
\* "dark" and the stored theme as noted, with isPrinting false.
C12_ThemeRestored ==
    [][ /\ (~isPrinting /\ isPrinting') =>
              previousThemeRef' = (IF isDark THEN "dark" ELSE "light")
        /\ (isPrinting /\ isPrinting') => previousThemeRef' = previousThemeRef
        /\ (isPrinting /\ ~isPrinting') =>
              /\ previousThemeRef \in {"dark", "light"}
              /\ isDark' = (previousThemeRef = "dark")
              /\ storedTheme' = previousThemeRef
              /\ printPc' = "idle" ]_vars

\* A print started in the dark theme is over: the theme is dark again.
C12_Witness ==
    /\ ~isPrinting
    /\ printPc = "idle"
    /\ previousThemeRef = "dark"
    /\ isDark
    /\ storedTheme = "dark"

\* A print started in the light theme is over, the theme having been
\* switched to dark while the dialog was open: the theme is light again.
C12_WitnessLight ==
    /\ ~isPrinting
    /\ previousThemeRef = "light"
    /\ ~isDark
    /\ storedTheme = "light"
    /\ \E k \in 1..Len(renders) : renders[k].cancelled /\ renders[k].dark

\* C13: while the viewer reports loading, and the poll's timeout has not
\* yet made the buttons give up, neither the print path nor the download
\* path is enabled.
C13_DisabledWhileLoading ==
    (excal /\ loading /\ timeout) =>
        (~ENABLED PressPrint /\ ~ENABLED PressDownload)

\* While the poll's interval is set, its last check found the viewer
\* loading and the buttons are disabled.
C13_DisabledWhilePolling == interval => isExcalLoading

\* C17: the poll stops and isExcalLoading ends false and stays false,
\* whatever the viewer reports and also without a viewer; and once the
\* interval is cleared isExcalLoading is never true.
C17_PollTerminates ==
    /\ <>[](~interval /\ ~timeout /\ ~isExcalLoading)
    /\ [](~interval => ~isExcalLoading)

\* The timeout has ended the poll of a viewer that has been loading since
\* it mounted.
C17_Witness ==
    /\ excal
    /\ loading
    /\ shown = NullObject
    /\ ~interval
    /\ ~timeout
    /\ ~isExcalLoading

\* The timeout has ended the poll on a page without a viewer.
C17_WitnessNoViewer ==
    /\ ~excal
    /\ ~interval
    /\ ~timeout
    /\ ~isExcalLoading

(***************************************************************************)
(* Claims about the viewer's state                                         *)
(***************************************************************************)
\* C23: whenever the modal is open, the selected image is the descriptor at
\* the current navigation index.
C23_SelectedIsAtIndex ==
    isModalOpen => selectedImage = identifiedImages[currentImageIndex + 1]

\* C27: whenever the loading flag is false, no non-cancelled render is in
\* flight.
C27_LoadingCoversRenders == ~loading => ActiveRenders = {}

\* C28: the modal flag is true exactly when a descriptor is selected, and
\* with located images the navigation index is one of their positions.
C28_FlagAndSelectionAgree ==
    /\ isModalOpen <=> IsObject(selectedImage)
    /\ Len(identifiedImages) > 0 =>
          currentImageIndex \in 0..(Len(identifiedImages) - 1)

\* The modal is open on the last of three images.
C28_Witness ==
    /\ isModalOpen
    /\ Len(identifiedImages) = 3
    /\ currentImageIndex = 2
    /\ selectedImage = identifiedImages[3]

\* The modal has been closed after a navigation: the index stays where it
\* was and nothing is selected.
C28_WitnessClosed ==
    /\ ~isModalOpen
    /\ selectedImage = NullObject
    /\ currentImageIndex = 1
    /\ Len(identifiedImages) = 2

\* C30: at any time at most one delegated click handler is attached to the
\* viewer's container.
C30_AtMostOneDelegated == delegated <= 1

(***************************************************************************)
(* Claims about the click targets of a rendered drawing                    *)
(***************************************************************************)
\* The image nodes a reader sees: <image> outside of symbols and <use>
DrawnImageNodes(svg) ==
    {d \in 1..Len(svg) :
        \/ svg[d].tag = "image" /\ ~InSymbol(svg, d)
        \/ svg[d].tag = "use"}

\* The node's reference matches a descriptor by data URL or by fileId.
MatchedByReference(svg, images, d) ==
    IF svg[d].tag = "use"
    THEN LET symbolId == RemoveFirstHash(svg[d].href)
             symbol == SymbolWithId(svg, symbolId)
             symbolImage == IF symbol = 0 THEN 0
                            ELSE FirstDescendant(svg, symbol, "image")
         IN  \/ /\ SymbolFileId(symbolId) # Null
                /\ FindByFileId(images, SymbolFileId(symbolId)) # 0
             \/ /\ symbolImage # 0
                /\ HitBySymbolHref(images, svg[symbolImage].href) # 0
    ELSE /\ svg[d].href # << >>
         /\ \/ HitByDataUrl(images, svg[d].href) # 0
            \/ HitByFileId(images, svg[d].href) # 0

C21_WitnessUse ==
    /\ shown # NullObject
    /\ Len(identifiedImages) > 0
    /\ \E d \in 1..Len(shown.svg) : shown.svg[d].tag = "use"
    /\ \A d \in 1..Len(shown.svg) :
          shown.svg[d].tag = "use" => shown.svg[d].clickable

\* C29: a clickable image node whose href is equal to the data URL of
\* exactly one descriptor is associated with that descriptor.
C29_ExactHrefPicksItsDescriptor ==
    shown # NullObject =>
        \A d \in 1..Len(shown.svg) : \A i \in 1..Len(identifiedImages) :
            (/\ shown.svg[d].tag = "image"
             /\ shown.svg[d].clickable
             /\ Truthy(identifiedImages[i].dataUrl)
             /\ shown.svg[d].href = identifiedImages[i].dataUrl
             /\ \A j \in 1..Len(identifiedImages) :
                   identifiedImages[j].dataUrl = identifiedImages[i].dataUrl => j = i)
            => shown.svg[d].info = i

(***************************************************************************)
(* Claims about the print and download paths                               *)
(***************************************************************************)
\* C22: with the buttons enabled on a page whose viewer exposes an SVG
\* generator, the download can take the SVG that the generator returns: the
\* generator comes first in the order of the sources.
C22_GeneratorFirst ==
    (excal /\ ~isExcalLoading /\ "__generateLightSVG" \in ViewerHooks) =>
        ENABLED (PressDownload /\ downloaded' = "generator")

\* C24: whenever the print path can invoke the print dialog of a page with
\* a viewer, the container shows a light render, the loading flag is false
\* and no render is in flight.
C24_LightAndSettledAtPrint ==
    (excal /\ ENABLED PrintInvoke) =>
        /\ ~loading
        /\ ActiveRenders = {}
        /\ shown # NullObject
        /\ ~shown.dark

\* C25: whenever a print dialog is open, the afterprint event leaves the
\* class "dark" as it was just before that print began, for the prints of
\* the button and for those the browser starts.
C25_AfterPrintRestores ==
    printPc \in {"dialog", "browser"} =>
        ~ENABLED (AfterPrint /\ ThemeName(isDark') # themeBeforePrint)

\* C26: when a press has ended in the catch block, so that no afterprint
\* follows it, isPrinting is false again and the theme noted by the press
\* is back.
C26_ReleasedAfterFailure ==
    printPc = "caught" =>
        /\ ~isPrinting
        /\ ThemeName(isDark) = previousThemeRef
====
